---- MODULE Spec2Model ----
(***************************************************************************)
(* Model of src/src/config/utils/fabric_vpg_validator.py: the fabric VPG   *)
(* validator (annotation parser, intra-VPG checker, fabric aggregator,     *)
(* reporter counters and statistics).                                      *)
(*                                                                         *)
(* Strings are modelled by their split form: an annotation string is the  *)
(* sequence of its '/'-separated segments, each segment the sequence of   *)
(* its ':'-separated tokens; a value string is the sequence of its        *)
(* ':'-separated tokens.  Two strings are equal iff their split forms are.*)
(***************************************************************************)
EXTENDS Integers, Sequences, FiniteSets, TLC

\* ------------------------------------------------------------------ bounds
\* Largest number of VPGs the configuration store returns.
MaxVpgs == 2
\* Largest number of annotation records over all VPGs of the fabric.
MaxRecords == 3
\* Largest number of calls of _validation_check_within_fabric on one validator.
MaxScans == 2

\* ------------------------------------------------------- program constants
SPLIT_SIZE == 2

\* Python's None
None == "None"

\* -------------------------------------------------------------- input data
VNs == {"vn1", "vn2"}
VLANs == {"100", "200"}

\* "validation:<mode>/vn:<vn>/vlan_id:<vlan>"
Ann(mode, vn, vlan) ==
    << <<"validation", mode>>, <<"vn", vn>>, <<"vlan_id", vlan>> >>

\* "validation:<mode>/untagged_vlan_id:<vlan>"
UntaggedAnn(mode, vlan) ==
    << <<"validation", mode>>, <<"untagged_vlan_id", vlan>> >>

EnterpriseAnns == {Ann("enterprise", vn, vlan) : vn \in VNs, vlan \in VLANs}
OtherAnns == {Ann("sp", vn, vlan) : vn \in VNs, vlan \in VLANs}
UntaggedAnns == {UntaggedAnn("enterprise", vlan) : vlan \in VLANs}

\* "validation:enterprise/vn:vn1/vlan_id:100/untagged_vlan_id:100": an
\* untagged annotation that names a VN and a VLAN as well
UntaggedFullAnn ==
    << <<"validation", "enterprise">>, <<"vn", "vn1">>, <<"vlan_id", "100">>,
       <<"untagged_vlan_id", "100">> >>

\* The annotation strings of the fabrics of Spec: enterprise records and
\* records of another validation mode.
CoreAnns ==
    EnterpriseAnns \cup {Ann("sp", "vn1", "100"), Ann("sp", "vn2", "100")}

\* The annotation strings of the fabrics of SpecUntagged.
UntaggedMixAnns ==
    UntaggedAnns \cup {UntaggedFullAnn, Ann("enterprise", "vn1", "100"),
                       Ann("sp", "vn1", "100")}

\* The annotation strings of the fabrics of SpecLocal: no enterprise record
\* but one.
LocalAnns ==
    OtherAnns \cup {UntaggedAnn("sp", "100"), Ann("enterprise", "vn1", "100")}

\* The annotation strings of the fabrics of SpecAttribution: enterprise records
\* that share a VN or a VLAN, after a record of another mode or an untagged
\* record that used it first.
AttributionAnns ==
    {UntaggedAnn("enterprise", "100"), Ann("enterprise", "vn1", "100"),
     Ann("enterprise", "vn2", "100"), Ann("enterprise", "vn1", "200"),
     Ann("sp", "vn1", "100")}

\* "vn:vn1/vlan_id:100": a VN and a VLAN, no validation mode
NoModeAnn == << <<"vn", "vn1">>, <<"vlan_id", "100">> >>

\* "validation:enterprise/vn:vn1/vn:vn2/vlan_id:100": the key vn twice
DupKeyAnn ==
    << <<"validation", "enterprise">>, <<"vn", "vn1">>, <<"vn", "vn2">>,
       <<"vlan_id", "100">> >>

\* "validation:enterprise/vn:vn1": no VLAN
NoVlanAnn == << <<"validation", "enterprise">>, <<"vn", "vn1">> >>

\* "validation:enterprise/vn:vn1:x/vlan_id:100": the vn segment has 3 tokens
LongSegmentAnn ==
    << <<"validation", "enterprise">>, <<"vn", "vn1", "x">>,
       <<"vlan_id", "100">> >>

\* The annotation strings of the fabrics of SpecParse: incomplete and
\* irregular annotations beside a regular one.
ParseAnns ==
    {Ann("enterprise", "vn1", "100"), NoModeAnn, DupKeyAnn, NoVlanAnn,
     LongSegmentAnn}

\* The annotation strings of the fabrics of SpecShared, where one interface may
\* own several records of a VPG.
SharedAnns ==
    {Ann("enterprise", "vn1", "100"), Ann("enterprise", "vn1", "200"),
     Ann("enterprise", "vn2", "100")}

\* The interfaces a VPG of SpecShared has.
SharedVmis == {1, 2}

\* The interface of record j of VPG i (interfaces are pairwise distinct).
Vmi(i, j) == <<"vmi", i, j>>

\* ------------------------------------------------------------------ parser
\* dict[k] = v
Put(d, k, v) == [x \in (DOMAIN d) \cup {k} |-> IF x = k THEN v ELSE d[x]]

\* 'marker' in annotation (tokens are atomic: the marker occurs in the string
\* iff it is one of its tokens)
Contains(annotation, marker) ==
    \E s \in 1..Len(annotation) :
        \E t \in 1..Len(annotation[s]) : annotation[s][t] = marker

\* ParseSegments with "if key not in dict" before the assignment: the first
\* segment of a key is kept
RECURSIVE ParseSegmentsKeepsFirst(_, _, _)
ParseSegmentsKeepsFirst(annotation_data, k, d) ==
    IF k > Len(annotation_data) THEN d
    ELSE LET tag_val == annotation_data[k]
         IN ParseSegmentsKeepsFirst(annotation_data, k + 1,
                IF Len(tag_val) = SPLIT_SIZE /\ tag_val[1] \notin DOMAIN d
                THEN Put(d, tag_val[1], tag_val[2])
                ELSE d)

\* ParseSegments with ">=" for "==": a segment of more tokens is taken too
RECURSIVE ParseSegmentsAnyLength(_, _, _)
ParseSegmentsAnyLength(annotation_data, k, d) ==
    IF k > Len(annotation_data) THEN d
    ELSE LET tag_val == annotation_data[k]
         IN ParseSegmentsAnyLength(annotation_data, k + 1,
                IF Len(tag_val) >= SPLIT_SIZE
                THEN Put(d, tag_val[1], tag_val[2])
                ELSE d)

\* the loop of lines 90-93 over annotation_data[k..]
RECURSIVE ParseSegments(_, _, _)
ParseSegments(annotation_data, k, d) ==
    IF k > Len(annotation_data) THEN d
    ELSE LET tag_val == annotation_data[k]
         IN ParseSegments(annotation_data, k + 1,
                IF Len(tag_val) = SPLIT_SIZE
                THEN Put(d, tag_val[1], tag_val[2])
                ELSE d)

EmptyDict == [x \in {} |-> None]

extract_annotation_info(annotation, vmi_val) ==
    LET untagged == Contains(annotation, "untagged_vlan_id")
        d0 == IF untagged THEN Put(EmptyDict, "untagged_vlan", vmi_val[1])
              ELSE EmptyDict
    IN [info |-> ParseSegments(annotation, 1, d0), untagged |-> untagged]

\* ------------------------------------------------- intra-VPG checker state
\* the locals of _validation_check_within_vpg as set in lines 99-110
EmptyLocal ==
    [local_vn_set |-> {},
     local_vlan_set |-> {},
     local_vn_vlan_set |-> {},
     vn_to_annotation_map |-> EmptyDict,
     vlan_to_annotation_map |-> EmptyDict,
     untagged_vlan |-> None,
     untagged_vmi |-> None,
     annotations_seen_map |-> EmptyDict,
     local_validation_failures |-> <<>>,
     across_fabric_failures |-> <<>>,
     untagged_fabric_failures |-> <<>>]

\* PutIfAbsent without the test "not in": a later writer replaces the first
PutAlways(d, k, v) == Put(d, k, v)

\* if k not in d: d[k] = v
PutIfAbsent(d, k, v) == IF k \in DOMAIN d THEN d ELSE Put(d, k, v)

\* FixUntagged without the test "is None": every untagged record fixes anew
FixUntaggedAlways(L, annotation, vmi_uuid, info) ==
    [L EXCEPT !.untagged_vlan = info["untagged_vlan"],
              !.untagged_vmi = vmi_uuid[2],
              !.vlan_to_annotation_map =
                  PutIfAbsent(@, info["untagged_vlan"],
                              <<annotation, vmi_uuid[2]>>)]

\* lines 119-124: the first untagged record fixes the untagged VLAN and VMI
FixUntagged(L, annotation, vmi_uuid, info) ==
    IF L.untagged_vlan = None
    THEN [L EXCEPT !.untagged_vlan = info["untagged_vlan"],
                   !.untagged_vmi = vmi_uuid[2],
                   !.vlan_to_annotation_map =
                       PutIfAbsent(@, info["untagged_vlan"],
                                   <<annotation, vmi_uuid[2]>>)]
    ELSE L

\* line 125
UntaggedDiffers(info, untagged_vlan) == info["untagged_vlan"] # untagged_vlan

\* lines 126-131
UntaggedFailure(L, vmi_uuid, info) ==
    <<vmi_uuid[2], info["untagged_vlan"], L.untagged_vmi, L.untagged_vlan>>

\* FirstOwner without the test "not in": the last owner wins
FirstOwnerOverwrites(map, key, vpg, vmi_uuid) ==
    Put(map, key, <<vpg.fq_name, vpg.uuid, vmi_uuid>>)

\* lines 140-150: the first-owner maps of the validator
FirstOwner(map, key, vpg, vmi_uuid) ==
    PutIfAbsent(map, key, <<vpg.fq_name, vpg.uuid, vmi_uuid>>)

\* SeenFailure that names the first user of the VN, not of the annotation
SeenFailureByVn(L, annotation, vmi_uuid, vn_uuid, vlan_id) ==
    <<vmi_uuid, L.vn_to_annotation_map[vn_uuid][2], vn_uuid, vlan_id>>

\* lines 163-167
SeenFailure(L, annotation, vmi_uuid, vn_uuid, vlan_id) ==
    <<vmi_uuid, L.annotations_seen_map[annotation], vn_uuid, vlan_id>>

\* RecordDuplicate that also takes the pair out of the local pair set
RecordDuplicateDropsPair(L, annotation, vmi_uuid, vn_uuid, vlan_id) ==
    [L EXCEPT !.local_vn_vlan_set = @ \ {<<vn_uuid, vlan_id>>},
              !.local_validation_failures =
                  Append(@, SeenFailure(L, annotation, vmi_uuid, vn_uuid,
                                        vlan_id))]

\* lines 162-168: the annotation string was seen before in this VPG
RecordDuplicate(L, annotation, vmi_uuid, vn_uuid, vlan_id) ==
    [L EXCEPT !.local_validation_failures =
                  Append(@, SeenFailure(L, annotation, vmi_uuid, vn_uuid,
                                        vlan_id))]

\* IsEnterprise that takes every validation mode for enterprise
IsEnterpriseAnyMode(info) == "validation" \in DOMAIN info

\* line 171
IsEnterprise(info) == info["validation"] = "enterprise"

\* lines 179-183
VnFailure(L, vmi_uuid, vn_uuid, vlan_id) ==
    <<vmi_uuid, L.vn_to_annotation_map[vn_uuid][2], vn_uuid, vlan_id>>

\* lines 192-196
VlanFailure(L, vmi_uuid, vn_uuid, vlan_id) ==
    <<vmi_uuid, L.vlan_to_annotation_map[vlan_id][2], vn_uuid, vlan_id>>

\* FabricConsistent without its first alternative: an exact pair does not pass
FabricConsistentNoPair(vn_uuid, vlan_id, fab) ==
    /\ vn_uuid \notin fab.fabric_vn_set
    /\ vlan_id \notin fab.fabric_vlan_set

\* FabricConsistent without its second alternative: only an exact pair passes
FabricConsistentPairOnly(vn_uuid, vlan_id, fab) ==
    <<vn_uuid, vlan_id>> \in fab.fabric_vn_vlan_set

\* lines 200-202: the condition under which no cross-fabric failure is recorded
FabricConsistent(vn_uuid, vlan_id, fab) ==
    \/ <<vn_uuid, vlan_id>> \in fab.fabric_vn_vlan_set
    \/ /\ vn_uuid \notin fab.fabric_vn_set
       /\ vlan_id \notin fab.fabric_vlan_set

\* VpgUsing with the two tests in the other order: the VLAN takes priority
VpgUsingVlanFirst(vn_uuid, vlan_id, fab, own) ==
    LET vn_seen == vn_uuid \in fab.fabric_vn_set
        vlan_seen == vlan_id \in fab.fabric_vlan_set
    IN IF vlan_seen THEN own.vlan_to_vpg_map[vlan_id]
       ELSE IF vn_seen THEN own.vn_to_vpg_map[vn_uuid]
       ELSE None

\* lines 209-215
VpgUsing(vn_uuid, vlan_id, fab, own) ==
    LET vn_seen == vn_uuid \in fab.fabric_vn_set
        vlan_seen == vlan_id \in fab.fabric_vlan_set
    IN IF vn_seen THEN own.vn_to_vpg_map[vn_uuid]
       ELSE IF vlan_seen THEN own.vlan_to_vpg_map[vlan_id]
       ELSE None

\* lines 171-221: the enterprise checks of one record, after the record's pair
\* has been added to local_vn_vlan_set.  fab holds the three fabric-wide sets,
\* own the two first-owner maps of the validator.
EnterpriseChecks(L, vmi_uuid, vn_uuid, vlan_id, fab, own) ==
    IF vn_uuid \in L.local_vn_set
    THEN [L EXCEPT !.local_vn_vlan_set = @ \ {<<vn_uuid, vlan_id>>},
                   !.local_validation_failures =
                       Append(@, VnFailure(L, vmi_uuid, vn_uuid, vlan_id))]
    ELSE LET L1 == [L EXCEPT !.local_vn_set = @ \cup {vn_uuid}]
         IN IF vlan_id \in L1.local_vlan_set
            THEN [L1 EXCEPT !.local_vn_vlan_set = @ \ {<<vn_uuid, vlan_id>>},
                            !.local_validation_failures =
                                Append(@, VlanFailure(L1, vmi_uuid, vn_uuid,
                                                      vlan_id))]
            ELSE LET L2 == [L1 EXCEPT !.local_vlan_set = @ \cup {vlan_id}]
                 IN IF FabricConsistent(vn_uuid, vlan_id, fab)
                    THEN L2
                    ELSE [L2 EXCEPT !.across_fabric_failures =
                             Append(@, <<vmi_uuid,
                                         VpgUsing(vn_uuid, vlan_id, fab, own),
                                         vn_uuid, vlan_id>>)]

\* lines 113-221: one iteration of the loop over the annotations of a VPG.
\* The result holds the locals, the validator's first-owner maps and the
\* exception that escapes the iteration (None when there is none).
CheckAnnotation(vpg, kv, L, own, fab) ==
    LET annotation == kv.key
        vmi_uuid == kv.value
        parsed == extract_annotation_info(annotation, vmi_uuid)
        info == parsed.info
        L1 == IF parsed.untagged
              THEN FixUntagged(L, annotation, vmi_uuid, info)
              ELSE L
        Out(loc, o, exc) ==
            [loc |-> loc, vn_to_vpg_map |-> o.vn_to_vpg_map,
             vlan_to_vpg_map |-> o.vlan_to_vpg_map, exc |-> exc]
    IN IF parsed.untagged /\ UntaggedDiffers(info, L1.untagged_vlan)
       THEN Out([L1 EXCEPT !.untagged_fabric_failures =
                               Append(@, UntaggedFailure(L1, vmi_uuid, info))],
                own, None)
       ELSE IF "vn" \notin DOMAIN info \/ "vlan_id" \notin DOMAIN info
       THEN Out(L1, own, None)
       ELSE
         LET vn_uuid == info["vn"]
             vlan_id == info["vlan_id"]
             own1 == [vn_to_vpg_map |->
                          FirstOwner(own.vn_to_vpg_map, vn_uuid, vpg, vmi_uuid),
                      vlan_to_vpg_map |->
                          FirstOwner(own.vlan_to_vpg_map, vlan_id, vpg,
                                     vmi_uuid)]
             L2 == [L1 EXCEPT
                      !.vn_to_annotation_map =
                          PutIfAbsent(@, vn_uuid, <<annotation, vmi_uuid>>),
                      !.vlan_to_annotation_map =
                          PutIfAbsent(@, vlan_id, <<annotation, vmi_uuid>>)]
         IN IF annotation \in DOMAIN L2.annotations_seen_map
            THEN Out(RecordDuplicate(L2, annotation, vmi_uuid, vn_uuid,
                                     vlan_id),
                     own1, None)
            ELSE
              LET L3 == [L2 EXCEPT
                           !.annotations_seen_map = Put(@, annotation, vmi_uuid),
                           !.local_vn_vlan_set = @ \cup {<<vn_uuid, vlan_id>>}]
              IN IF "validation" \notin DOMAIN info
                 THEN Out(L3, own1, "KeyError")
                 ELSE IF IsEnterprise(info)
                 THEN Out(EnterpriseChecks(L3, vmi_uuid, vn_uuid, vlan_id,
                                           fab, own1),
                          own1, None)
                 ELSE Out(L3, own1, None)

\* lines 113-228: the loop over the annotations of a VPG from record r on, as
\* a function of the locals, the first-owner maps and the fabric-wide sets
RECURSIVE PassFrom(_, _, _, _, _)
PassFrom(vpg, r, L, own, fab) ==
    IF r > Len(vpg.annotations) THEN [loc |-> L, own |-> own]
    ELSE LET o == CheckAnnotation(vpg, vpg.annotations[r], L, own, fab)
         IN PassFrom(vpg, r + 1, o.loc,
                     [vn_to_vpg_map |-> o.vn_to_vpg_map,
                      vlan_to_vpg_map |-> o.vlan_to_vpg_map], fab)

\* ------------------------------------------------------- fabric aggregator
\* MergeSet that keeps the sets of the last VPG only
MergeSetReplaces(fabric_set, local_set) == local_set

\* lines 223-225
MergeSet(fabric_set, local_set) == fabric_set \cup local_set

\* lines 236-243: the loop over the VPGs of a list from VPG v on; the result is
\* the across-fabric list of the last VPG of the list
RECURSIVE ScanFrom(_, _, _, _)
ScanFrom(vpg_list, v, own, fab) ==
    LET p == PassFrom(vpg_list[v], 1, EmptyLocal, own, fab)
    IN IF v = Len(vpg_list) THEN p.loc.across_fabric_failures
       ELSE ScanFrom(vpg_list, v + 1, p.own,
                [fabric_vn_vlan_set |->
                     MergeSet(fab.fabric_vn_vlan_set, p.loc.local_vn_vlan_set),
                 fabric_vn_set |->
                     MergeSet(fab.fabric_vn_set, p.loc.local_vn_set),
                 fabric_vlan_set |->
                     MergeSet(fab.fabric_vlan_set, p.loc.local_vlan_set)])

\* line 251: the key of a VPG in validation_failures
VpgKey(vpg) == <<vpg.uuid, vpg.fq_name>>

\* lines 251-255
VpgFailures(L) ==
    [local_check |-> L.local_validation_failures,
     untagged_vlan |-> L.untagged_fabric_failures,
     across_fabric |-> L.across_fabric_failures]

\* line 376: all(len(error) == 0 for error_type, error in errors.items())
NoFailures(errors) ==
    /\ Len(errors.local_check) = 0
    /\ Len(errors.untagged_vlan) = 0
    /\ Len(errors.across_fabric) = 0

\* lines 375-381: the number of increments of invalid_vpgs in one call
InvalidVpgCount(failures) ==
    Cardinality({k \in DOMAIN failures : ~NoFailures(failures[k])})

\* lines 397-402: (1.0 * errors / total) * 100, by its integer part
Percent(errors, total) == (100 * errors) \div total

\* ------------------------------------------------------------------- state
VARIABLES
    vpgs,                 \* self.vpg_uuids['virtual-port-groups']
    pc,                   \* position of main / the validator
    exc,                  \* the exception that ended the run, or None
    scans,                \* calls of _validation_check_within_fabric so far
    i,                    \* index of the VPG of the loop of line 236
    j,                    \* index of the annotation of the loop of line 113
    loc,                  \* locals of _validation_check_within_vpg
    fabric_vn_vlan_set, fabric_vn_set, fabric_vlan_set,
    validation_failures, across_fabric_errors, within_vpg_errors,
    untagged_vlan_errors, invalid_vpgs, vn_to_vpg_map, vlan_to_vpg_map,
    total_errors, num_total_vpgs,
    output,               \* the report sink main used: None, "json" or "log"
    stats,                \* what _report_statistics printed
    results               \* the ScanResult of every completed scan, in order

vars == <<vpgs, pc, exc, scans, i, j, loc, fabric_vn_vlan_set, fabric_vn_set,
          fabric_vlan_set, validation_failures, across_fabric_errors,
          within_vpg_errors, untagged_vlan_errors, invalid_vpgs, vn_to_vpg_map,
          vlan_to_vpg_map, total_errors, num_total_vpgs, output, stats,
          results>>

fabricVars == <<fabric_vn_vlan_set, fabric_vn_set, fabric_vlan_set>>
counterVars == <<across_fabric_errors, within_vpg_errors, untagged_vlan_errors>>
ownerVars == <<vn_to_vpg_map, vlan_to_vpg_map>>
reportVars == <<invalid_vpgs, output, stats>>

\* ------------------------------------------------------------------- input
RECURSIVE SumTo(_, _)
SumTo(sizes, k) == IF k = 0 THEN 0 ELSE sizes[k] + SumTo(sizes, k - 1)

\* the untagged VLAN named by an untagged annotation
UntaggedVlanOf(annotation) ==
    LET s == CHOOSE s \in 1..Len(annotation) :
                 annotation[s][1] = "untagged_vlan_id"
    IN annotation[s][2]

\* the value string stored with an annotation: "<vmi>" or, for an untagged
\* annotation, "<vlan>:<vmi>"
ValueOf(annotation, vmi) ==
    IF Contains(annotation, "untagged_vlan_id")
    THEN <<UntaggedVlanOf(annotation), vmi>>
    ELSE <<vmi>>

\* the VPG list whose annotation strings are anns, cut into VPGs of the
\* given sizes
BuildVpgs(anns, sizes) ==
    [v \in 1..Len(sizes) |->
        [uuid |-> v,
         fq_name |-> <<"vpg", v>>,
         annotations |->
            [r \in 1..sizes[v] |->
                LET a == anns[SumTo(sizes, v - 1) + r]
                IN [key |-> a, value |-> ValueOf(a, Vmi(v, r))]]]]

\* lines 52-63: the state after __init__, for a fabric over the given
\* annotation strings
InitWith(Anns) ==
    /\ \E v \in 0..MaxVpgs, t \in 0..MaxRecords :
         \E anns \in [1..t -> Anns], sizes \in [1..v -> 0..t] :
            /\ SumTo(sizes, v) = t
            /\ vpgs = BuildVpgs(anns, sizes)
    /\ pc = "init"
    /\ exc = None
    /\ scans = 0
    /\ i = 0
    /\ j = 0
    /\ loc = EmptyLocal
    /\ fabric_vn_vlan_set = {}
    /\ fabric_vn_set = {}
    /\ fabric_vlan_set = {}
    /\ validation_failures = EmptyDict
    /\ across_fabric_errors = 0
    /\ within_vpg_errors = 0
    /\ untagged_vlan_errors = 0
    /\ invalid_vpgs = 0
    /\ vn_to_vpg_map = EmptyDict
    /\ vlan_to_vpg_map = EmptyDict
    /\ total_errors = None
    /\ num_total_vpgs = None
    /\ output = None
    /\ stats = None
    /\ results = <<>>

Init == InitWith(CoreAnns)

\* the VPG list whose record k has the annotation string anns[k] and belongs to
\* interface vmis[k] of its VPG
BuildSharedVpgs(anns, vmis, sizes) ==
    [v \in 1..Len(sizes) |->
        [uuid |-> v,
         fq_name |-> <<"vpg", v>>,
         annotations |->
            [r \in 1..sizes[v] |->
                LET k == SumTo(sizes, v - 1) + r
                IN [key |-> anns[k],
                    value |-> ValueOf(anns[k], Vmi(v, vmis[k]))]]]]

\* lines 52-63: the state after __init__, for a fabric where an interface may
\* own several records
InitShared ==
    /\ \E v \in 0..MaxVpgs, t \in 0..MaxRecords :
         \E anns \in [1..t -> SharedAnns], vmis \in [1..t -> SharedVmis],
            sizes \in [1..v -> 0..t] :
            /\ SumTo(sizes, v) = t
            /\ vpgs = BuildSharedVpgs(anns, vmis, sizes)
    /\ pc = "init"
    /\ exc = None
    /\ scans = 0
    /\ i = 0
    /\ j = 0
    /\ loc = EmptyLocal
    /\ fabric_vn_vlan_set = {}
    /\ fabric_vn_set = {}
    /\ fabric_vlan_set = {}
    /\ validation_failures = EmptyDict
    /\ across_fabric_errors = 0
    /\ within_vpg_errors = 0
    /\ untagged_vlan_errors = 0
    /\ invalid_vpgs = 0
    /\ vn_to_vpg_map = EmptyDict
    /\ vlan_to_vpg_map = EmptyDict
    /\ total_errors = None
    /\ num_total_vpgs = None
    /\ output = None
    /\ stats = None
    /\ results = <<>>

\* ----------------------------------------------------------------- actions
\* StartScan without lines 232-234: the fabric-wide sets of the last scan stay
StartScanKeepsSets ==
    /\ pc \in {"init", "scanned"}
    /\ scans < MaxScans
    /\ scans' = scans + 1
    /\ num_total_vpgs' = Len(vpgs)
    /\ i' = 1
    /\ j' = 1
    /\ loc' = EmptyLocal
    /\ pc' = "scan"
    /\ UNCHANGED <<vpgs, exc, fabricVars, validation_failures, counterVars,
                   ownerVars, total_errors, reportVars, results>>

\* lines 232-235: _validation_check_within_fabric is entered
StartScan ==
    /\ pc \in {"init", "scanned"}
    /\ scans < MaxScans
    /\ scans' = scans + 1
    /\ fabric_vn_vlan_set' = {}
    /\ fabric_vn_set' = {}
    /\ fabric_vlan_set' = {}
    /\ num_total_vpgs' = Len(vpgs)
    /\ i' = 1
    /\ j' = 1
    /\ loc' = EmptyLocal
    /\ pc' = "scan"
    /\ UNCHANGED <<vpgs, exc, validation_failures, counterVars, ownerVars,
                   total_errors, reportVars, results>>

\* lines 113-221: one annotation of the VPG in hand is checked
CheckRecord ==
    /\ pc = "scan"
    /\ i <= Len(vpgs)
    /\ j <= Len(vpgs[i].annotations)
    /\ LET own == [vn_to_vpg_map |-> vn_to_vpg_map,
                   vlan_to_vpg_map |-> vlan_to_vpg_map]
           fab == [fabric_vn_vlan_set |-> fabric_vn_vlan_set,
                   fabric_vn_set |-> fabric_vn_set,
                   fabric_vlan_set |-> fabric_vlan_set]
           r == CheckAnnotation(vpgs[i], vpgs[i].annotations[j], loc, own, fab)
       IN /\ loc' = r.loc
          /\ vn_to_vpg_map' = r.vn_to_vpg_map
          /\ vlan_to_vpg_map' = r.vlan_to_vpg_map
          /\ exc' = r.exc
          /\ pc' = IF r.exc = None THEN "scan" ELSE "raised"
    /\ j' = j + 1
    /\ UNCHANGED <<vpgs, scans, i, fabricVars, validation_failures,
                   counterVars, total_errors, num_total_vpgs, reportVars,
                   results>>

\* lines 223-228 and 245-255: the pass over a VPG ends; its sets are merged
\* and its failures recorded
EndVpg ==
    /\ pc = "scan"
    /\ i <= Len(vpgs)
    /\ j > Len(vpgs[i].annotations)
    /\ fabric_vn_vlan_set' = MergeSet(fabric_vn_vlan_set, loc.local_vn_vlan_set)
    /\ fabric_vn_set' = MergeSet(fabric_vn_set, loc.local_vn_set)
    /\ fabric_vlan_set' = MergeSet(fabric_vlan_set, loc.local_vlan_set)
    /\ across_fabric_errors' =
           across_fabric_errors + Len(loc.across_fabric_failures)
    /\ untagged_vlan_errors' =
           untagged_vlan_errors + Len(loc.untagged_fabric_failures)
    /\ within_vpg_errors' =
           within_vpg_errors + Len(loc.local_validation_failures)
    /\ validation_failures' =
           Put(validation_failures, VpgKey(vpgs[i]), VpgFailures(loc))
    /\ i' = i + 1
    /\ j' = 1
    /\ loc' = EmptyLocal
    /\ UNCHANGED <<vpgs, pc, exc, scans, ownerVars, total_errors,
                   num_total_vpgs, reportVars, results>>

\* the ScanResult a completed scan leaves in the validator
ScanResult(total) ==
    [failures |-> validation_failures,
     across_fabric_errors |-> across_fabric_errors,
     untagged_vlan_errors |-> untagged_vlan_errors,
     within_vpg_errors |-> within_vpg_errors,
     total_errors |-> total]

\* lines 257-259: _validation_check_within_fabric returns
FinishScan ==
    /\ pc = "scan"
    /\ i > Len(vpgs)
    /\ total_errors' =
           across_fabric_errors + untagged_vlan_errors + within_vpg_errors
    /\ results' = Append(results, ScanResult(total_errors'))
    /\ pc' = "scanned"
    /\ UNCHANGED <<vpgs, exc, scans, i, j, loc, fabricVars,
                   validation_failures, counterVars, ownerVars,
                   num_total_vpgs, reportVars>>

\* lines 463-468: main dumps validation_failures as JSON; json.dump raises
\* TypeError on a key that is a tuple
DumpJson ==
    /\ pc = "scanned"
    /\ output' = "json"
    /\ IF DOMAIN validation_failures = {}
       THEN pc' = "reported" /\ exc' = exc
       ELSE pc' = "raised" /\ exc' = "TypeError"
    /\ UNCHANGED <<vpgs, scans, i, j, loc, fabricVars, validation_failures,
                   counterVars, ownerVars, total_errors, num_total_vpgs,
                   invalid_vpgs, stats, results>>

\* lines 374-387, called from line 470
ReportValidationErrorInFabric ==
    /\ pc = "scanned"
    /\ output' = "log"
    /\ invalid_vpgs' = invalid_vpgs + InvalidVpgCount(validation_failures)
    /\ pc' = "reported"
    /\ UNCHANGED <<vpgs, exc, scans, i, j, loc, fabricVars,
                   validation_failures, counterVars, ownerVars, total_errors,
                   num_total_vpgs, stats, results>>

\* lines 389-415
ReportStatistics ==
    /\ pc = "reported"
    /\ LET zero == total_errors = 0
           across_percent ==
               IF zero THEN 0 ELSE Percent(across_fabric_errors, total_errors)
           within_vpg ==
               IF zero THEN 0 ELSE Percent(within_vpg_errors, total_errors)
           untagged_vlan ==
               IF zero THEN 0 ELSE Percent(untagged_vlan_errors, total_errors)
       IN IF num_total_vpgs = 0
          THEN /\ stats' = [across_percent |-> across_percent,
                            within_vpg |-> within_vpg,
                            untagged_vlan |-> untagged_vlan]
               /\ exc' = "ZeroDivisionError"
               /\ pc' = "raised"
          ELSE /\ stats' = [across_percent |-> across_percent,
                            within_vpg |-> within_vpg,
                            untagged_vlan |-> untagged_vlan,
                            invalid_percent |->
                                Percent(invalid_vpgs, num_total_vpgs)]
               /\ exc' = exc
               /\ pc' = "done"
    /\ UNCHANGED <<vpgs, scans, i, j, loc, fabricVars, validation_failures,
                   counterVars, ownerVars, total_errors, num_total_vpgs,
                   invalid_vpgs, output, results>>

Next ==
    \/ StartScan
    \/ CheckRecord
    \/ EndVpg
    \/ FinishScan
    \/ DumpJson
    \/ ReportValidationErrorInFabric
    \/ ReportStatistics

Spec == Init /\ [][Next]_vars

\* the validator over fabrics with untagged records
InitUntagged == InitWith(UntaggedMixAnns)
SpecUntagged == InitUntagged /\ [][Next]_vars

\* the validator over fabrics of records that are not in enterprise mode
InitLocal == InitWith(LocalAnns)
SpecLocal == InitLocal /\ [][Next]_vars

\* the validator over fabrics where a VN or VLAN has several users in a VPG
InitAttribution == InitWith(AttributionAnns)
SpecAttribution == InitAttribution /\ [][Next]_vars

\* the validator over fabrics with incomplete and irregular annotations
InitParse == InitWith(ParseAnns)
SpecParse == InitParse /\ [][Next]_vars

\* the validator over fabrics where an interface may own several records
SpecShared == InitShared /\ [][Next]_vars

\* ------------------------------------------------- reading the input fabric
\* the facts of a record, as the parser extracts them
InfoOf(kv) == extract_annotation_info(kv.key, kv.value).info
IsUntaggedRec(kv) == extract_annotation_info(kv.key, kv.value).untagged
HasVnVlan(kv) == {"vn", "vlan_id"} \subseteq DOMAIN InfoOf(kv)
IsEnterpriseRec(kv) ==
    /\ "validation" \in DOMAIN InfoOf(kv)
    /\ InfoOf(kv)["validation"] = "enterprise"
VnOf(kv) == InfoOf(kv)["vn"]
VlanOf(kv) == InfoOf(kv)["vlan_id"]
PairOf(kv) == <<VnOf(kv), VlanOf(kv)>>

\* VPG v has been through EndVpg in some scan
Recorded(v) == VpgKey(vpgs[v]) \in DOMAIN validation_failures
FailuresOf(v) == validation_failures[VpgKey(vpgs[v])]

\* a CheckRecord step is about to check record j of VPG i
AtRecord ==
    /\ pc = "scan"
    /\ i <= Len(vpgs)
    /\ j <= Len(vpgs[i].annotations)

\* the pass over VPG i has ended and its sets are about to be merged
AtPassEnd ==
    /\ pc = "scan"
    /\ i <= Len(vpgs)
    /\ j > Len(vpgs[i].annotations)

\* the first untagged record of the VPG (0 when there is none): it fixes the
\* untagged VLAN of the VPG
RECURSIVE FirstUntaggedFrom(_, _)
FirstUntaggedFrom(vpg, r) ==
    IF r > Len(vpg.annotations) THEN 0
    ELSE IF IsUntaggedRec(vpg.annotations[r]) THEN r
    ELSE FirstUntaggedFrom(vpg, r + 1)
FixingRec(vpg) == FirstUntaggedFrom(vpg, 1)

\* the untagged VLAN a record declares: the first token of its value string
UntaggedVlanIn(kv) == kv.value[1]

\* record r of the VPG is untagged with a VLAN other than the fixed one
IsConflictRec(vpg, r) ==
    /\ IsUntaggedRec(vpg.annotations[r])
    /\ UntaggedVlanIn(vpg.annotations[r]) #
           UntaggedVlanIn(vpg.annotations[FixingRec(vpg)])

\* record r of the VPG gets as far as the duplicate-annotation check
ReachesDuplicateCheck(vpg, r) ==
    /\ HasVnVlan(vpg.annotations[r])
    /\ ~IsConflictRec(vpg, r)

\* the earlier records of the VPG with the annotation string of record r
EarlierSame(vpg, r) ==
    {k \in 1..(r - 1) : vpg.annotations[k].key = vpg.annotations[r].key}

\* the smallest element of a non-empty set of numbers
Min(S) == CHOOSE k \in S : \A m \in S : k <= m

\* ------------------------------------------------------------------ claims
\* the VPG holds exactly one record, in enterprise mode, with a VN and a VLAN
OneEnterpriseRecord(vpg) ==
    /\ Len(vpg.annotations) = 1
    /\ ~IsUntaggedRec(vpg.annotations[1])
    /\ HasVnVlan(vpg.annotations[1])
    /\ IsEnterpriseRec(vpg.annotations[1])

\* the fabric is [X, Y], one enterprise record each, same VN, different VLANs
OrderCase ==
    /\ Len(vpgs) = 2
    /\ OneEnterpriseRecord(vpgs[1])
    /\ OneEnterpriseRecord(vpgs[2])
    /\ VnOf(vpgs[1].annotations[1]) = VnOf(vpgs[2].annotations[1])
    /\ VlanOf(vpgs[1].annotations[1]) # VlanOf(vpgs[2].annotations[1])

\* C1: when the fabric is [X, Y], each VPG holding one enterprise record with
\* the same VN and different VLANs, a completed scan has exactly one
\* cross-fabric collision: it is in the list of Y, the VPG scanned second, and
\* names X (name, uuid, interface) as the owner; the list of X is empty.  Init
\* draws both orders, so swapping X and Y swaps the roles.
C1_OrderSensitivity ==
    (OrderCase /\ Len(results) >= 1) =>
        LET X == vpgs[1]
            Y == vpgs[2]
            x == X.annotations[1]
            y == Y.annotations[1]
        IN /\ FailuresOf(2).across_fabric =
                 << <<y.value, <<X.fq_name, X.uuid, x.value>>,
                      VnOf(y), VlanOf(y)>> >>
           /\ FailuresOf(1).across_fabric = <<>>
           /\ results[1].across_fabric_errors = 1

C1_Witness ==
    /\ OrderCase
    /\ Len(results) >= 1
    /\ Len(FailuresOf(2).across_fabric) = 1

\* C2 as stated: when the pass over a VPG ends, the pair of an annotation
\* string that two records of the VPG carry is not in the pair set the VPG
\* contributes.
C2_DuplicatePairExcluded ==
    AtPassEnd =>
        \A r \in 1..Len(vpgs[i].annotations) :
            (HasVnVlan(vpgs[i].annotations[r]) /\ EarlierSame(vpgs[i], r) # {})
                => PairOf(vpgs[i].annotations[r]) \notin loc.local_vn_vlan_set

\* record j of VPG i carries the annotation string of an earlier record that
\* got as far as the duplicate-annotation check
RepeatsCheckedAnnotation ==
    \E k \in EarlierSame(vpgs[i], j) : ReachesDuplicateCheck(vpgs[i], k)

\* C2 amended: a record whose annotation string an earlier record of the VPG
\* already brought to the duplicate check leaves the pair set of the VPG as it
\* is: the pair is not taken out on account of the duplicate.
C2_DuplicateKeepsPairSet ==
    [][(AtRecord /\ j' = j + 1 /\ RepeatsCheckedAnnotation)
          => loc'.local_vn_vlan_set = loc.local_vn_vlan_set]_vars

\* a duplicate record has been checked and its pair is still in the pair set
C2_Witness ==
    /\ pc = "scan"
    /\ i <= Len(vpgs)
    /\ j = 3
    /\ vpgs[i].annotations[1].key = vpgs[i].annotations[2].key
    /\ Len(loc.local_validation_failures) = 1
    /\ PairOf(vpgs[i].annotations[2]) \in loc.local_vn_vlan_set

\* what a record that repeats the annotation string first carried by record k
\* does: one duplicate failure naming the interface of record k, and no
\* enterprise or cross-fabric check
DuplicateOutcome(k) ==
    /\ loc'.local_validation_failures =
           Append(loc.local_validation_failures,
                  <<vpgs[i].annotations[j].value, vpgs[i].annotations[k].value,
                    VnOf(vpgs[i].annotations[j]),
                    VlanOf(vpgs[i].annotations[j])>>)
    /\ loc'.local_vn_set = loc.local_vn_set
    /\ loc'.local_vlan_set = loc.local_vlan_set
    /\ loc'.across_fabric_failures = loc.across_fabric_failures

\* C3 as stated: every record with a VN and a VLAN whose annotation string is
\* that of an earlier record of the VPG gives exactly one duplicate failure,
\* naming the interface of the first record with that annotation string, and
\* no enterprise or cross-fabric check is made.
C3_EveryRepeatIsDuplicate ==
    [][(AtRecord /\ j' = j + 1 /\ HasVnVlan(vpgs[i].annotations[j])
          /\ EarlierSame(vpgs[i], j) # {})
          => DuplicateOutcome(Min(EarlierSame(vpgs[i], j)))]_vars

\* the earlier records with the annotation string of record r that got as far
\* as the duplicate-annotation check
EarlierChecked(vpg, r) ==
    {k \in EarlierSame(vpg, r) : ReachesDuplicateCheck(vpg, k)}

\* the VPG holds two records, with one annotation string, that both get as
\* far as the duplicate-annotation check
TwoIdenticalRecords(vpg) ==
    /\ Len(vpg.annotations) = 2
    /\ vpg.annotations[1].key = vpg.annotations[2].key
    /\ ReachesDuplicateCheck(vpg, 1)
    /\ ReachesDuplicateCheck(vpg, 2)

\* C3 amended: every record that gets as far as the duplicate-annotation check
\* (VN and VLAN present, not set aside as an untagged conflict) and repeats the
\* annotation string of an earlier record that got as far gives exactly one
\* duplicate failure, naming the interface of the first such record, whatever
\* the validation mode, and no enterprise or cross-fabric check is made; two
\* such records with one annotation string give exactly one failure.
C3_CheckedRepeatIsDuplicate ==
    /\ [][(AtRecord /\ j' = j + 1 /\ ReachesDuplicateCheck(vpgs[i], j)
             /\ EarlierChecked(vpgs[i], j) # {})
             => DuplicateOutcome(Min(EarlierChecked(vpgs[i], j)))]_vars
    /\ [](\A v \in 1..Len(vpgs) :
             (Recorded(v) /\ TwoIdenticalRecords(vpgs[v]))
                 => Len(FailuresOf(v).local_check) = 1)

\* a VPG of two records with one annotation string of a mode other than
\* enterprise has been recorded with its one duplicate failure
C3_Witness ==
    \E v \in 1..Len(vpgs) :
        /\ Recorded(v)
        /\ TwoIdenticalRecords(vpgs[v])
        /\ ~IsEnterpriseRec(vpgs[v].annotations[1])
        /\ FailuresOf(v).local_check =
               << <<vpgs[v].annotations[2].value, vpgs[v].annotations[1].value,
                    VnOf(vpgs[v].annotations[2]),
                    VlanOf(vpgs[v].annotations[2])>> >>

\* the untagged conflicts of the records r.. of a VPG, in order: one for each
\* untagged record whose VLAN is not the fixed one, made of this interface, its
\* VLAN, the fixing interface and the fixed VLAN
RECURSIVE UntaggedConflictsFrom(_, _)
UntaggedConflictsFrom(vpg, r) ==
    IF r > Len(vpg.annotations) THEN <<>>
    ELSE IF IsConflictRec(vpg, r)
    THEN << <<vpg.annotations[r].value[2],
              UntaggedVlanIn(vpg.annotations[r]),
              vpg.annotations[FixingRec(vpg)].value[2],
              UntaggedVlanIn(vpg.annotations[FixingRec(vpg)])>> >>
         \o UntaggedConflictsFrom(vpg, r + 1)
    ELSE UntaggedConflictsFrom(vpg, r + 1)

\* C4: the untagged-conflict list of a VPG holds, in order, one record for
\* each untagged record after the first whose VLAN differs from the VLAN the
\* first untagged record fixed, and nothing for one whose VLAN equals it.
C4_UntaggedRule ==
    \A v \in 1..Len(vpgs) :
        Recorded(v) =>
            FailuresOf(v).untagged_vlan = UntaggedConflictsFrom(vpgs[v], 1)

\* a VPG with untagged VLANs a, b, a has been recorded with one conflict
C4_Witness ==
    \E v \in 1..Len(vpgs) :
        /\ Recorded(v)
        /\ Len(vpgs[v].annotations) = 3
        /\ \A r \in 1..3 : IsUntaggedRec(vpgs[v].annotations[r])
        /\ IsConflictRec(vpgs[v], 2)
        /\ ~IsConflictRec(vpgs[v], 3)
        /\ Len(FailuresOf(v).untagged_vlan) = 1

\* the places <<v, r>> of the records of the fabric
Places ==
    UNION {{<<v, r>> : r \in 1..Len(vpgs[v].annotations)} : v \in 1..Len(vpgs)}
RecAt(p) == vpgs[p[1]].annotations[p[2]]

\* every VN and every VLAN occurs in at most one record of the fabric
GloballyUnique ==
    \A p, q \in Places :
        p # q =>
            /\ ("vn" \in DOMAIN InfoOf(RecAt(p)) /\ "vn" \in DOMAIN InfoOf(RecAt(q)))
                   => InfoOf(RecAt(p))["vn"] # InfoOf(RecAt(q))["vn"]
            /\ ("vlan_id" \in DOMAIN InfoOf(RecAt(p))
                  /\ "vlan_id" \in DOMAIN InfoOf(RecAt(q)))
                   => InfoOf(RecAt(p))["vlan_id"] # InfoOf(RecAt(q))["vlan_id"]

\* C5: in a fabric where every VN and every VLAN occurs in at most one record,
\* no cross-fabric collision is ever recorded: the counter stays zero and the
\* across-fabric list of every VPG is empty.
C5_UniqueFabricNoCollision ==
    GloballyUnique =>
        /\ across_fabric_errors = 0
        /\ loc.across_fabric_failures = <<>>
        /\ \A v \in 1..Len(vpgs) :
               Recorded(v) => FailuresOf(v).across_fabric = <<>>

\* a fabric of two VPGs with one enterprise record each, with different VNs
\* and VLANs, has been scanned
C5_Witness ==
    /\ GloballyUnique
    /\ Len(vpgs) = 2
    /\ OneEnterpriseRecord(vpgs[1])
    /\ OneEnterpriseRecord(vpgs[2])
    /\ pc = "scanned"
    /\ fabric_vn_set = VNs

\* the VPG has no enterprise record and no annotation string twice
NoEnterpriseNoRepeat(vpg) ==
    \A r \in 1..Len(vpg.annotations) :
        /\ ~IsEnterpriseRec(vpg.annotations[r])
        /\ EarlierSame(vpg, r) = {}

\* C6: the local-check list of a VPG with no enterprise record and no
\* annotation string twice is empty, also when records share a VN or a VLAN.
C6_NoEnterpriseNoLocalFailure ==
    \A v \in 1..Len(vpgs) :
        (Recorded(v) /\ NoEnterpriseNoRepeat(vpgs[v]))
            => FailuresOf(v).local_check = <<>>

\* a VPG of three records of another mode, two with one VN and two with one
\* VLAN, has been recorded without a local failure
C6_Witness ==
    \E v \in 1..Len(vpgs) :
        /\ Recorded(v)
        /\ NoEnterpriseNoRepeat(vpgs[v])
        /\ Len(vpgs[v].annotations) = 3
        /\ \A r \in 1..3 : HasVnVlan(vpgs[v].annotations[r])
        /\ VnOf(vpgs[v].annotations[1]) = VnOf(vpgs[v].annotations[2])
        /\ VlanOf(vpgs[v].annotations[1]) = VlanOf(vpgs[v].annotations[3])
        /\ FailuresOf(v).local_check = <<>>

\* C7: the second scan of an unchanged fabric by the validator leaves the same
\* ScanResult as the first: the same failure lists and the same counters.
C7_ScanIdempotent ==
    Len(results) >= 2 => results[2] = results[1]

\* _report_statistics has been entered
StatisticsRan ==
    \/ pc = "done"
    \/ (pc = "raised" /\ exc = "ZeroDivisionError")

\* C8: after a scan with zero failures in all, also over zero VPGs, the
\* statistics step completes and reports 0 for the three category percentages
\* and for the percentage of invalid VPGs.
C8_ZeroFailureStatistics ==
    (StatisticsRan /\ total_errors = 0) =>
        /\ pc = "done"
        /\ stats.across_percent = 0
        /\ stats.within_vpg = 0
        /\ stats.untagged_vlan = 0
        /\ stats.invalid_percent = 0

\* the scanned VPGs with a failure in one of their three lists
NonCleanVpgs ==
    {v \in 1..Len(vpgs) : Recorded(v) /\ ~NoFailures(FailuresOf(v))}

C10_FabricSetsGrow ==
    [][/\ scans' # scans =>
            /\ fabric_vn_vlan_set' = {}
            /\ fabric_vn_set' = {}
            /\ fabric_vlan_set' = {}
       /\ scans' = scans =>
            /\ fabric_vn_vlan_set \subseteq fabric_vn_vlan_set'
            /\ fabric_vn_set \subseteq fabric_vn_set'
            /\ fabric_vlan_set \subseteq fabric_vlan_set']_vars

\* the sets have grown at the first VPG and again at the second
C10_Witness ==
    /\ pc = "scan"
    /\ i = 3
    /\ Len(vpgs[1].annotations) = 1
    /\ Cardinality(fabric_vn_vlan_set) = 2
    /\ Cardinality(fabric_vn_set) = 2
    /\ Cardinality(fabric_vlan_set) = 2

\* the elements of a sequence
Range(seq) == {seq[k] : k \in 1..Len(seq)}

\* the records of the VPGs scanned before VPG v
PlacesBefore(v) == {p \in Places : p[1] < v}

\* C11 as stated: a cross-fabric collision is recorded for a pair only if no
\* record of an earlier-scanned VPG carries that pair.
C11_NoCollisionOnHeldPair ==
    \A v \in 1..Len(vpgs) :
        Recorded(v) =>
            \A f \in Range(FailuresOf(v).across_fabric) :
                \A p \in PlacesBefore(v) :
                    HasVnVlan(RecAt(p)) => PairOf(RecAt(p)) # <<f[3], f[4]>>

\* the pass over VPG i is under way
InPass == pc = "scan" /\ i <= Len(vpgs)

\* C11 amended: a cross-fabric collision is recorded for a pair only if the
\* pair is not in the fabric-wide pair set, that is, no earlier-scanned VPG
\* contributed it; a pair of the fabric-wide pair set is never reported.
C11_NoCollisionOnContributedPair ==
    InPass =>
        \A f \in Range(loc.across_fabric_failures) :
            <<f[3], f[4]>> \notin fabric_vn_vlan_set

\* a collision is recorded in the second VPG for a pair that a record of the
\* first VPG carries: that record failed the VN or VLAN check of its VPG
C11_Witness ==
    /\ InPass
    /\ i = 2
    /\ Len(FailuresOf(1).local_check) = 1
    /\ \E f \in Range(loc.across_fabric_failures) :
           \E r \in 1..Len(vpgs[1].annotations) :
               PairOf(vpgs[1].annotations[r]) = <<f[3], f[4]>>

\* C12 as stated: when a collision is recorded, exactly one of "the VN is in
\* the fabric-wide VN set" and "the VLAN is in the fabric-wide VLAN set" holds.
C12_ExactlyOneSeen ==
    InPass =>
        \A f \in Range(loc.across_fabric_failures) :
            (f[3] \in fabric_vn_set) # (f[4] \in fabric_vlan_set)

\* C12 amended: when a collision is recorded, at least one of the two holds;
\* both can hold at once, the VN and the VLAN having come into the sets with
\* different partners.
C12_AtLeastOneSeen ==
    InPass =>
        \A f \in Range(loc.across_fabric_failures) :
            (f[3] \in fabric_vn_set) \/ (f[4] \in fabric_vlan_set)

\* a collision is recorded for a pair that is not in the pair set while its VN
\* and its VLAN are both in the fabric-wide sets
C12_Witness ==
    /\ InPass
    /\ \E f \in Range(loc.across_fabric_failures) :
           /\ f[3] \in fabric_vn_set
           /\ f[4] \in fabric_vlan_set
           /\ <<f[3], f[4]>> \notin fabric_vn_vlan_set

\* the first of a non-empty set of places, in scan order
FirstPlace(S) ==
    CHOOSE p \in S : \A q \in S : p[1] < q[1] \/ (p[1] = q[1] /\ p[2] <= q[2])

\* the records that get as far as the first-owner maps (line 140)
OwnerPlaces == {p \in Places : ReachesDuplicateCheck(vpgs[p[1]], p[2])}

\* the owner tuple of the record at a place
OwnerAt(p) == <<vpgs[p[1]].fq_name, vpgs[p[1]].uuid, RecAt(p).value>>

\* the first record of the fabric, in scan order, with the VN / with the VLAN
OwnerOfVn(vn) == OwnerAt(FirstPlace({p \in OwnerPlaces : VnOf(RecAt(p)) = vn}))
OwnerOfVlan(vlan) ==
    OwnerAt(FirstPlace({p \in OwnerPlaces : VlanOf(RecAt(p)) = vlan}))

\* C13: the owner named in a collision is the first owner of the VN whenever
\* the VN is in the fabric-wide VN set, also when the VLAN is in the VLAN set,
\* and the first owner of the VLAN only when the VN is not; in both cases there
\* is such an owner.
C13_CollisionOwner ==
    InPass =>
        \A f \in Range(loc.across_fabric_failures) :
            f[2] = IF f[3] \in fabric_vn_set
                   THEN OwnerOfVn(f[3])
                   ELSE OwnerOfVlan(f[4])

\* a collision with both the VN and the VLAN in the sets, their first owners
\* being different records, names the first owner of the VN
C13_Witness ==
    /\ InPass
    /\ \E f \in Range(loc.across_fabric_failures) :
           /\ f[3] \in fabric_vn_set
           /\ f[4] \in fabric_vlan_set
           /\ OwnerOfVn(f[3]) # OwnerOfVlan(f[4])
           /\ f[2] = OwnerOfVn(f[3])

\* record k of the VPG is in enterprise mode and gets as far as the VN check
ReachesVnCheck(vpg, k) ==
    /\ ReachesDuplicateCheck(vpg, k)
    /\ EarlierChecked(vpg, k) = {}
    /\ IsEnterpriseRec(vpg.annotations[k])

\* record k of the VPG marks its VN as used
MarksVn(vpg, k) ==
    /\ ReachesVnCheck(vpg, k)
    /\ \A m \in 1..(k - 1) :
           ReachesVnCheck(vpg, m)
               => VnOf(vpg.annotations[m]) # VnOf(vpg.annotations[k])

\* record k of the VPG marks its VLAN as used
MarksVlan(vpg, k) ==
    /\ MarksVn(vpg, k)
    /\ \A m \in 1..(k - 1) :
           MarksVn(vpg, m)
               => VlanOf(vpg.annotations[m]) # VlanOf(vpg.annotations[k])

\* the interface of the record that marked the VN / the VLAN of record r
VnMarker(vpg, r) ==
    LET k == Min({m \in 1..(r - 1) :
                     /\ MarksVn(vpg, m)
                     /\ VnOf(vpg.annotations[m]) = VnOf(vpg.annotations[r])})
    IN vpg.annotations[k].value
VlanMarker(vpg, r) ==
    LET k == Min({m \in 1..(r - 1) :
                     /\ MarksVlan(vpg, m)
                     /\ VlanOf(vpg.annotations[m]) = VlanOf(vpg.annotations[r])})
    IN vpg.annotations[k].value

\* the CheckRecord step records an enterprise VN or VLAN duplicate failure
EnterpriseDuplicateStep ==
    /\ AtRecord
    /\ j' = j + 1
    /\ ReachesVnCheck(vpgs[i], j)
    /\ Len(loc'.local_validation_failures) >
           Len(loc.local_validation_failures)

\* the interface named by the failure the step recorded
NamedInterface ==
    loc'.local_validation_failures[Len(loc'.local_validation_failures)][2]

\* C14 as stated: an enterprise VN (VLAN) duplicate failure names the
\* interface of the earlier enterprise record of the VPG that marked the VN
\* (VLAN) as used.
C14_NamesMarkingRecord ==
    [][EnterpriseDuplicateStep =>
          NamedInterface =
              IF VnOf(vpgs[i].annotations[j]) \in loc.local_vn_set
              THEN VnMarker(vpgs[i], j)
              ELSE VlanMarker(vpgs[i], j)]_vars

\* the interface of the first record of the VPG with the VN of record r that
\* got as far as the first-use maps (lines 152-156), whatever its mode
VnFirstUser(vpg, r) ==
    LET k == Min({m \in 1..(r - 1) :
                     /\ ReachesDuplicateCheck(vpg, m)
                     /\ VnOf(vpg.annotations[m]) = VnOf(vpg.annotations[r])})
    IN vpg.annotations[k].value

\* the interface of the first user of the VLAN of record r: the first record
\* with that VLAN that got as far as the first-use maps or, when it comes no
\* later, the untagged record that fixed that VLAN as the untagged VLAN
VlanFirstUser(vpg, r) ==
    LET K == {m \in 1..(r - 1) :
                 /\ ReachesDuplicateCheck(vpg, m)
                 /\ VlanOf(vpg.annotations[m]) = VlanOf(vpg.annotations[r])}
        fix == FixingRec(vpg)
        fixed == /\ fix # 0
                 /\ fix < r
                 /\ UntaggedVlanIn(vpg.annotations[fix]) =
                        VlanOf(vpg.annotations[r])
                 /\ \A m \in K : fix <= m
    IN IF fixed THEN vpg.annotations[fix].value[2]
       ELSE vpg.annotations[Min(K)].value

\* C14 amended: an enterprise VN duplicate failure names the interface of the
\* first record of the VPG with that VN that got as far as the first-use maps,
\* whatever its validation mode; a VLAN duplicate failure names the interface
\* of the first such record with that VLAN or, when it comes no later, of the
\* untagged record that fixed that VLAN as the untagged VLAN of the VPG.
C14_NamesFirstUser ==
    [][EnterpriseDuplicateStep =>
          NamedInterface =
              IF VnOf(vpgs[i].annotations[j]) \in loc.local_vn_set
              THEN VnFirstUser(vpgs[i], j)
              ELSE VlanFirstUser(vpgs[i], j)]_vars

\* the third record of a VPG failed the VLAN check and the failure names the
\* interface of the first record, an untagged record without VN and VLAN
C14_Witness ==
    /\ InPass
    /\ j = 4
    /\ Len(vpgs[i].annotations) = 3
    /\ IsUntaggedRec(vpgs[i].annotations[1])
    /\ ~HasVnVlan(vpgs[i].annotations[1])
    /\ HasVnVlan(vpgs[i].annotations[2])
    /\ HasVnVlan(vpgs[i].annotations[3])
    /\ vpgs[i].annotations[2].key # vpgs[i].annotations[3].key
    /\ loc.local_validation_failures =
           << <<vpgs[i].annotations[3].value, vpgs[i].annotations[1].value[2],
                VnOf(vpgs[i].annotations[3]),
                VlanOf(vpgs[i].annotations[3])>> >>

\* C15: every intra-VPG duplicate failure names two different interfaces, the
\* interface of the failing record and the earlier interface it is attributed
\* to, also when one interface owns several records of the VPG.
C15_TwoInterfaces ==
    InPass =>
        \A f \in Range(loc.local_validation_failures) : f[1] # f[2]

\* the across-fabric list a new validator gives VPG v when the fabric ends
\* with VPG v
AcrossOfPrefix(v) ==
    ScanFrom(SubSeq(vpgs, 1, v), 1,
             [vn_to_vpg_map |-> EmptyDict, vlan_to_vpg_map |-> EmptyDict],
             [fabric_vn_vlan_set |-> {}, fabric_vn_set |-> {},
              fabric_vlan_set |-> {}])

\* some enterprise record of a VPG scanned before VPG v has the VN or the VLAN
EarlierVpgUses(v, vn, vlan) ==
    \E p \in PlacesBefore(v) :
        /\ HasVnVlan(RecAt(p))
        /\ IsEnterpriseRec(RecAt(p))
        /\ (VnOf(RecAt(p)) = vn \/ VlanOf(RecAt(p)) = vlan)

\* C16: the fabric-wide sets are only read while the records of a VPG are
\* checked and are merged at the end of its pass; every collision of a VPG is
\* due to an enterprise record of a VPG scanned before it, never to a record of
\* the same VPG, so the list of the VPG scanned first is empty; and the
\* across-fabric list of a VPG is the list the scan of the fabric cut after
\* that VPG gives it: the VPGs after it have no part in it.
C16_SetsReadDuringPass ==
    /\ [][(AtRecord /\ j' = j + 1) => UNCHANGED fabricVars]_vars
    /\ [](\A v \in 1..Len(vpgs) :
             Recorded(v) =>
                 /\ \A f \in Range(FailuresOf(v).across_fabric) :
                        EarlierVpgUses(v, f[3], f[4])
                 /\ pc = "scanned" =>
                        FailuresOf(v).across_fabric = AcrossOfPrefix(v))

\* a scan has ended; the first VPG has two enterprise records and an empty
\* across-fabric list, the second VPG has a collision with it
C16_Witness ==
    /\ pc = "scanned"
    /\ Len(vpgs) = 2
    /\ Len(vpgs[1].annotations) = 2
    /\ IsEnterpriseRec(vpgs[1].annotations[1])
    /\ IsEnterpriseRec(vpgs[1].annotations[2])
    /\ FailuresOf(1).across_fabric = <<>>
    /\ Len(FailuresOf(2).across_fabric) = 1

\* the owner tuples of the records of the VPGs scanned before VPG v
OwnersBefore(v) == {OwnerAt(p) : p \in PlacesBefore(v)}

\* C20: in a fabric whose VPGs have pairwise distinct identities, the owner
\* named in a cross-fabric collision is an interface of a VPG scanned strictly
\* before the VPG the collision is recorded in, never of that VPG itself.
C20_OwnerScannedBefore ==
    /\ \A v \in 1..Len(vpgs) :
           Recorded(v) =>
               \A f \in Range(FailuresOf(v).across_fabric) :
                   /\ f[2] \in OwnersBefore(v)
                   /\ f[2][2] # vpgs[v].uuid
    /\ InPass =>
           \A f \in Range(loc.across_fabric_failures) :
               /\ f[2] \in OwnersBefore(i)
               /\ f[2][2] # vpgs[i].uuid

\* the second VPG has recorded a collision whose owner is the second record of
\* the first VPG
C20_Witness ==
    /\ Len(vpgs) = 2
    /\ Len(vpgs[1].annotations) = 2
    /\ Recorded(2)
    /\ \E f \in Range(FailuresOf(2).across_fabric) : f[2] = OwnerAt(<<1, 2>>)

\* the segments of an annotation string that have the form key:value
KeyValueSegments(annotation, key) ==
    {s \in 1..Len(annotation) :
        Len(annotation[s]) = SPLIT_SIZE /\ annotation[s][1] = key}

\* the annotation string has a key:value segment for the key
HasField(annotation, key) == KeyValueSegments(annotation, key) # {}

\* C17: a record with a VN and a VLAN but no validation mode raises nothing:
\* it is treated like a record of a mode other than enterprise (no VN, VLAN or
\* cross-fabric check) and the pass goes on.
C17_NoModeContinues ==
    [][(AtRecord /\ j' = j + 1
          /\ HasField(vpgs[i].annotations[j].key, "vn")
          /\ HasField(vpgs[i].annotations[j].key, "vlan_id")
          /\ ~HasField(vpgs[i].annotations[j].key, "validation"))
          => /\ pc' = "scan"
             /\ exc' = None
             /\ loc'.local_vn_set = loc.local_vn_set
             /\ loc'.local_vlan_set = loc.local_vlan_set
             /\ loc'.across_fabric_failures = loc.across_fabric_failures]_vars

\* the largest element of a non-empty set of numbers
Max(S) == CHOOSE k \in S : \A m \in S : k >= m

\* the keys of the key:value segments of an annotation string
FieldsOf(annotation) ==
    {annotation[s][1] : s \in {t \in 1..Len(annotation) :
                                   Len(annotation[t]) = SPLIT_SIZE}}

\* the records of the VPG under scan that have been checked
CheckedPlaces == IF InPass THEN {p \in Places : p[1] = i /\ p[2] < j} ELSE {}

\* C18 as stated: when an annotation string has several segments with one key,
\* the mapping parsed from it when the record is checked holds the value of
\* the first of them.
C18_FirstSegmentKept ==
    \A p \in CheckedPlaces :
        \A key \in FieldsOf(RecAt(p).key) :
            InfoOf(RecAt(p))[key] =
                RecAt(p).key[Min(KeyValueSegments(RecAt(p).key, key))][2]

\* C18 amended: when an annotation string has several segments with one key,
\* the mapping parsed from it when the record is checked holds the value of
\* the last of them: a later segment overwrites an earlier one; and the first
\* owner the record leaves for a VN is stored under that last value.
C18_LastSegmentKept ==
    \A p \in CheckedPlaces :
        /\ HasField(RecAt(p).key, "vn") /\ HasField(RecAt(p).key, "vlan_id")
               => RecAt(p).key[Max(KeyValueSegments(RecAt(p).key, "vn"))][2]
                      \in DOMAIN vn_to_vpg_map
        /\ \A key \in FieldsOf(RecAt(p).key) :
            InfoOf(RecAt(p))[key] =
                RecAt(p).key[Max(KeyValueSegments(RecAt(p).key, key))][2]

\* a record whose annotation has the key vn twice has been checked: the first
\* owner of the second VN is this record and the first VN has no owner
C18_Witness ==
    /\ InPass
    /\ j = 2
    /\ Cardinality(KeyValueSegments(vpgs[i].annotations[1].key, "vn")) = 2
    /\ DOMAIN vn_to_vpg_map = {"vn2"}
    /\ loc.local_vn_set = {"vn2"}

\* C19: a record that is not untagged and lacks a VN or a VLAN is skipped: the
\* step records no failure and leaves the local sets, the seen-annotation map,
\* the first-use and first-owner maps and the untagged state as they were,
\* and the pass goes on.
C19_IncompleteRecordSkipped ==
    [][(AtRecord /\ j' = j + 1
          /\ ~Contains(vpgs[i].annotations[j].key, "untagged_vlan_id")
          /\ (~HasField(vpgs[i].annotations[j].key, "vn")
                \/ ~HasField(vpgs[i].annotations[j].key, "vlan_id")))
          => /\ loc' = loc
             /\ pc' = "scan"
             /\ exc' = None
             /\ UNCHANGED <<ownerVars, fabricVars, validation_failures,
                            counterVars>>]_vars

\* the second record of a VPG, which has no VN or no VLAN, has been checked
\* after a record that left its marks in the locals
C19_Witness ==
    /\ InPass
    /\ j = 3
    /\ HasVnVlan(vpgs[i].annotations[1])
    /\ ~HasField(vpgs[i].annotations[2].key, "vn")
    /\ loc.local_vn_set # {}
    /\ Len(loc.local_validation_failures) = 0

\* the records of the VPGs whose sets have been merged in the scan in hand
MergedPlaces == {p \in Places : p[1] < i}

\* the VNs / VLANs that occur in a pair of the fabric-wide pair set
PairedVns == {p[1] : p \in fabric_vn_vlan_set}
PairedVlans == {p[2] : p \in fabric_vn_vlan_set}

====
